---------------------------- MODULE Spec2Model ----------------------------
(***************************************************************************)
(* A model of the ClipCode chunking engine: the tokenizer wrapper, the     *)
(* token-aware splitter (split.ts), the cursor compositor and chunkFile    *)
(* (chunk-file.ts) and the batch orchestrator (batch-processor.ts).        *)
(*                                                                         *)
(* Text is a sequence of one-character strings, so that split, join, trim  *)
(* and slice are computed the way the JavaScript string methods compute    *)
(* them.                                                                   *)
(***************************************************************************)
EXTENDS Integers, Sequences, FiniteSets, TLC

VARIABLES
    \* inputs shared by the splitter and chunkFile
    optMaxTokens,        \* the token budget
    optTokenizer,               \* the encoder behind the tokenizer
    \* one call of splitCode
    optSourceCode,       \* SplitOptions.sourceCode
    optStartLine,        \* SplitOptions.startLine
    splitResult,      \* what splitCode returned or threw ("none" before the call)
    charSplit,        \* what findCharacterSplit returned for the same text
    \* one call of chunkFile
    inFileContent,      \* the content of the file at filePath
    inAstNodes,         \* the nodes the collector returns for the parsed file
    inEnv,              \* what the file system, parser and encoder do for the file
    cfUnits,          \* the node and gap units the cursor compositor walked
    cfEvents,         \* the processing steps chunkFile performed, in order
    cfResult,         \* what chunkFile returned or threw ("none" before the call)
    cfResultAgain,    \* what a second run of chunkFile on the same file returned
    gapsResult,       \* what extractGaps returned for the same content and nodes
    \* one call of batchProcessFiles
    fileOutcome,      \* per discovered file, what chunkFile does for it
    concurrency,      \* BatchProcessingOptions.concurrency
    continueOnError,  \* BatchProcessingOptions.continueOnError
    bpc,              \* where batchProcessFiles stands
    nextFile,         \* index of the next file of the for loop
    inProgress,       \* the promises held in inProgress
    results,          \* the results accumulated by processFilesWithConcurrency
    \* one call of each collector
    inTree,           \* the syntax tree handed to the collectors
    inWantedNodes,    \* the set wantedNodes
    collected,        \* what collectTreeNodes returned ("none" before the call)
    collectedWithSymbols,  \* what collectTreeNodesWithSymbols returned
    bEvents,          \* the processing steps the batch performed, in order
    batchResult       \* what batchProcessFiles resolved or rejected with

splitVars == <<optSourceCode, optStartLine, splitResult, charSplit>>
chunkVars == <<inFileContent, inAstNodes, inEnv, cfUnits, cfEvents, cfResult,
               cfResultAgain, gapsResult>>
batchVars == <<fileOutcome, concurrency, continueOnError, bpc, nextFile,
               inProgress, results, bEvents, batchResult>>
collectVars == <<inTree, inWantedNodes, collected, collectedWithSymbols>>
vars == <<optMaxTokens, optTokenizer, splitVars, chunkVars, batchVars, collectVars>>

(***************************************************************************)
(* Bounds of the model.                                                    *)
(***************************************************************************)
\* longest text handed to splitCode
MaxTextLen == 4
\* largest token budget tried
MaxBudget == 2
\* largest first line number handed to splitCode
MaxStartLine == 2
\* longest file content handed to chunkFile
MaxFileLen == 3
\* most syntax nodes collected from one file
MaxNodes == 2
\* most nodes of a syntax tree handed to the collectors
MaxTreeNodes == 3
\* most files in one batch
MaxFiles == 4
\* largest concurrency parameter tried
MaxConcurrency == 2

(***************************************************************************)
(* Characters and strings.                                                 *)
(***************************************************************************)
NL == "\n"
Whitespace == {" ", NL}
Alphabet == {"a", " ", ",", NL}

Texts(n) == UNION {[1..k -> Alphabet] : k \in 0..n}

\* String.prototype.slice(from, to) with 0-based offsets
Slice(s, from, to) == SubSeq(s, from + 1, to)

\* s.trim().length === 0
IsBlank(s) == \A i \in 1..Len(s) : s[i] \in Whitespace

\* String.prototype.split(d) for a one-character separator
RECURSIVE StrSplit(_, _)
StrSplit(s, d) ==
    IF \A i \in 1..Len(s) : s[i] # d
    THEN <<s>>
    ELSE LET k == CHOOSE i \in 1..Len(s) :
                      s[i] = d /\ \A j \in 1..(i - 1) : s[j] # d
         IN  <<SubSeq(s, 1, k - 1)>> \o StrSplit(SubSeq(s, k + 1, Len(s)), d)

\* Array.prototype.join(d)
RECURSIVE StrJoin(_, _)
StrJoin(parts, d) ==
    IF Len(parts) = 0 THEN <<>>
    ELSE IF Len(parts) = 1 THEN parts[1]
    ELSE parts[1] \o <<d>> \o StrJoin(Tail(parts), d)

\* concatenation of a sequence of strings, no separator
RECURSIVE Concat(_)
Concat(parts) ==
    IF Len(parts) = 0 THEN <<>> ELSE parts[1] \o Concat(Tail(parts))

(***************************************************************************)
(* The tokenizer.  The encoder is an external collaborator (tiktoken); it  *)
(* is modelled by a small family of encoders, one of which is chosen for   *)
(* each run:                                                               *)
(*   "char"  one token per character;                                      *)
(*   "word"  a run of letters, with one space before it, is one token and  *)
(*           every other character is a token of its own;                  *)
(*   "heavy" two tokens per character (a single character can exceed a     *)
(*           budget of one);                                               *)
(*   "merge" the three characters a,a are one token and every other        *)
(*           character is a token of its own, as a byte-pair encoder       *)
(*           merges a longer text into fewer tokens than its prefix.       *)
(***************************************************************************)
Tokenizers == {"char", "word", "heavy", "merge"}

IsLetter(c) == c = "a"

\* position i of text starts a token of the "word" encoder
WordTokenStart(text, i) ==
    ~(IsLetter(text[i]) /\ i > 1 /\ (IsLetter(text[i - 1]) \/ text[i - 1] = " "))

\* the "merge" encoder, greedy from the left
RECURSIVE MergeLength(_)
MergeLength(text) ==
    IF Len(text) = 0 THEN 0
    ELSE IF Len(text) >= 3 /\ text[1] = "a" /\ text[2] = "," /\ text[3] = "a"
         THEN 1 + MergeLength(SubSeq(text, 4, Len(text)))
         ELSE 1 + MergeLength(Tail(text))

\* this.encoding.encode(text).length
EncodeLength(tk, text) ==
    CASE tk = "char"  -> Len(text)
      [] tk = "word"  -> Cardinality({i \in 1..Len(text) : WordTokenStart(text, i)})
      [] tk = "heavy" -> 2 * Len(text)
      [] tk = "merge" -> MergeLength(text)

\* Tokenizer.countTokens
countTokens(tk, text) ==
    IF Len(text) = 0 \/ IsBlank(text) THEN 0 ELSE EncodeLength(tk, text)

(***************************************************************************)
(* The token-aware splitter (split.ts).  A split is a record               *)
(* [content, startLine, endLine, tokenCount].                              *)
(***************************************************************************)
Delimiters == <<" ", ",", ";", "(", ")", "{", "}", "[", "]">>

\* a slip of MkSplit: the end line is taken one past the last line
MkSplitEndingOneLater(content, startLine, endLine, tokenCount) ==
    [content |-> content, startLine |-> startLine,
     endLine |-> endLine + 1, tokenCount |-> tokenCount]

MkSplit(content, startLine, endLine, tokenCount) ==
    [content |-> content, startLine |-> startLine,
     endLine |-> endLine, tokenCount |-> tokenCount]

\* a slip of flushChunk: the split is recorded from the line after the
\* buffer's first line
flushChunkFromNextLine(chunks, lines, startLine, endLine, tokenCount) ==
    IF Len(lines) = 0 THEN chunks
    ELSE LET content == StrJoin(lines, NL)
         IN  IF ~IsBlank(content)
             THEN Append(chunks, [content |-> content, startLine |-> startLine + 1,
                                  endLine |-> endLine, tokenCount |-> tokenCount])
             ELSE chunks

\* flushChunk: the splits after flushing `lines`; the token count stored is
\* the one the caller passes in
flushChunk(chunks, lines, startLine, endLine, tokenCount) ==
    IF Len(lines) = 0 THEN chunks
    ELSE LET content == StrJoin(lines, NL)
         IN  IF ~IsBlank(content)
             THEN Append(chunks, MkSplit(content, startLine, endLine, tokenCount))
             ELSE chunks

\* the inner loop of findBestSplit for one delimiter, from part i on
RECURSIVE AccumulateParts(_, _, _, _, _, _)
AccumulateParts(parts, i, currentPart, delimiter, maxTokens, tk) ==
    IF i > Len(parts) THEN currentPart
    ELSE LET testPart == IF i = 1 THEN parts[1]
                         ELSE currentPart \o <<delimiter>> \o parts[i]
         IN  IF countTokens(tk, testPart) <= maxTokens
             THEN AccumulateParts(parts, i + 1, testPart, delimiter, maxTokens, tk)
             ELSE currentPart

\* the outer loop of findBestSplit, from delimiter d on
RECURSIVE BestSplitFrom(_, _, _, _, _)
BestSplitFrom(text, maxTokens, tk, d, bestSplit) ==
    IF d > Len(Delimiters) THEN bestSplit
    ELSE LET currentPart == AccumulateParts(StrSplit(text, Delimiters[d]), 1, <<>>,
                                            Delimiters[d], maxTokens, tk)
         IN  BestSplitFrom(text, maxTokens, tk, d + 1,
                           IF Len(currentPart) > Len(bestSplit)
                           THEN currentPart ELSE bestSplit)

findBestSplit(text, maxTokens, tk) == BestSplitFrom(text, maxTokens, tk, 1, <<>>)

\* the binary search of findCharacterSplit
RECURSIVE CharSearch(_, _, _, _, _, _)
CharSearch(text, maxTokens, tk, left, right, bestLength) ==
    IF left > right THEN bestLength
    ELSE LET mid == (left + right) \div 2
         IN  IF countTokens(tk, Slice(text, 0, mid)) <= maxTokens
             THEN CharSearch(text, maxTokens, tk, mid + 1, right, mid)
             ELSE CharSearch(text, maxTokens, tk, left, mid - 1, bestLength)

\* a slip of findCharacterSplit: one character more than the search found
findCharacterSplitOneTooMany(text, maxTokens, tk) ==
    LET bestLength == CharSearch(text, maxTokens, tk, 0, Len(text), 0)
    IN  Slice(text, 0, IF bestLength < Len(text) THEN bestLength + 1 ELSE bestLength)

findCharacterSplit(text, maxTokens, tk) ==
    Slice(text, 0, CharSearch(text, maxTokens, tk, 0, Len(text), 0))

\* the fragment splitLongLine takes off the front of remainingText
NextFragment(remainingText, maxTokens, tk) ==
    LET byDelimiter == findBestSplit(remainingText, maxTokens, tk)
        byCharacter == IF Len(byDelimiter) = 0
                       THEN findCharacterSplit(remainingText, maxTokens, tk)
                       ELSE byDelimiter
    IN  IF Len(byCharacter) = 0 THEN <<remainingText[1]>> ELSE byCharacter

\* a slip of RestAfter: the character after the fragment is skipped as if it
\* were a separator
RestAfterSkippingOne(remainingText, bestSplit) ==
    Slice(remainingText, Len(bestSplit) + 1, Len(remainingText))

\* remainingText.slice(bestSplit.length)
RestAfter(remainingText, bestSplit) ==
    Slice(remainingText, Len(bestSplit), Len(remainingText))

RECURSIVE LongLineLoop(_, _, _, _, _)
LongLineLoop(remainingText, lineNumber, maxTokens, tk, splits) ==
    IF Len(remainingText) = 0 THEN splits
    ELSE LET bestSplit == NextFragment(remainingText, maxTokens, tk)
         IN  LongLineLoop(RestAfter(remainingText, bestSplit), lineNumber, maxTokens, tk,
                          Append(splits, MkSplit(bestSplit, lineNumber, lineNumber,
                                                 countTokens(tk, bestSplit))))

\* a slip of splitLongLine: an empty fragment is emitted before the loop
splitLongLineEmittingEmpty(line, lineNumber, maxTokens, tk) ==
    LongLineLoop(line, lineNumber, maxTokens, tk,
                 <<[content |-> <<>>, startLine |-> lineNumber,
                    endLine |-> lineNumber, tokenCount |-> 0]>>)

splitLongLine(line, lineNumber, maxTokens, tk) ==
    LongLineLoop(line, lineNumber, maxTokens, tk, <<>>)

\* the line loop of splitCode from line index i (1-based) on; st holds the
\* loop's variables
RECURSIVE SplitLoop(_, _, _, _, _, _)
SplitLoop(lines, i, startLine, maxTokens, tk, st) ==
    IF i > Len(lines)
    THEN IF Len(st.currentChunk) > 0
         THEN flushChunk(st.splits, st.currentChunk, st.currentStartLine,
                         startLine + Len(lines) - 1, st.currentTokenCount)
         ELSE st.splits
    ELSE LET line == lines[i]
             lineNumber == startLine + (i - 1)
             lineTokens == countTokens(tk, line)
             potentialTokenCount == st.currentTokenCount + lineTokens
             next ==
               IF IsBlank(line)
               THEN [st EXCEPT !.currentChunk = Append(@, line)]
               ELSE IF lineTokens > maxTokens
               THEN [splits |->
                        (IF Len(st.currentChunk) > 0
                         THEN flushChunk(st.splits, st.currentChunk, st.currentStartLine,
                                         lineNumber - 1, st.currentTokenCount)
                         ELSE st.splits)
                        \o splitLongLine(line, lineNumber, maxTokens, tk),
                     currentChunk |-> <<>>,
                     currentStartLine |-> lineNumber + 1,
                     currentTokenCount |->
                        IF Len(st.currentChunk) > 0 THEN 0 ELSE st.currentTokenCount]
               ELSE IF potentialTokenCount > maxTokens /\ Len(st.currentChunk) > 0
               THEN [splits |-> flushChunk(st.splits, st.currentChunk, st.currentStartLine,
                                           lineNumber - 1, st.currentTokenCount),
                     currentChunk |-> <<line>>,
                     currentStartLine |-> lineNumber,
                     currentTokenCount |-> lineTokens]
               ELSE [st EXCEPT !.currentChunk = Append(@, line),
                               !.currentTokenCount = potentialTokenCount]
         IN  SplitLoop(lines, i + 1, startLine, maxTokens, tk, next)

NoCall == [kind |-> "none"]
Returned(value) == [kind |-> "ok", value |-> value]
Thrown(errorType, message) == [kind |-> "error", type |-> errorType, message |-> message]

\* the budget guard of splitCode
InvalidBudget(maxTokens) == maxTokens <= 0

\* splitCode: the splits it returns, or the error it throws
splitCode(sourceCode, startLine, maxTokens, tk) ==
    IF Len(sourceCode) = 0 \/ IsBlank(sourceCode)
    THEN Returned(<<>>)
    ELSE IF InvalidBudget(maxTokens)
    THEN Thrown("TokenProcessingError", <<"maxTokens must be greater than 0">>)
    ELSE Returned(SplitLoop(StrSplit(sourceCode, NL), 1, startLine, maxTokens, tk,
                            [splits |-> <<>>, currentChunk |-> <<>>,
                             currentStartLine |-> startLine, currentTokenCount |-> 0]))

(***************************************************************************)
(* Syntax nodes.  The parser is an external collaborator (tree-sitter): a  *)
(* collected node is a snapshot [startPosition, endPosition, text] of a    *)
(* stretch of the file that begins and ends with a non-whitespace          *)
(* character; rows and columns are 0-based, the end position lies after    *)
(* the node's last character.  Two nodes of one tree are disjoint or       *)
(* nested, and the collector returns them ordered by start position, an    *)
(* enclosing node before the nodes it encloses.                            *)
(***************************************************************************)
SetMax(S) == CHOOSE x \in S : \A y \in S : y <= x

\* row and column of the position o characters into text
RowOf(text, o) == Cardinality({i \in 1..o : text[i] = NL})
ColumnOf(text, o) == o - SetMax({0} \cup {i \in 1..o : text[i] = NL})

NodeAt(text, s, e) ==
    [startPosition |-> [row |-> RowOf(text, s), column |-> ColumnOf(text, s)],
     endPosition   |-> [row |-> RowOf(text, e), column |-> ColumnOf(text, e)],
     text          |-> Slice(text, s, e)]

NodeSpans(text) ==
    {sp \in (0..Len(text)) \X (0..Len(text)) :
        /\ sp[1] < sp[2]
        /\ text[sp[1] + 1] \notin Whitespace
        /\ text[sp[2]] \notin Whitespace}

SpansLaminar(a, b) ==
    \/ a[2] <= b[1] \/ b[2] <= a[1]
    \/ (a[1] <= b[1] /\ b[2] <= a[2])
    \/ (b[1] <= a[1] /\ a[2] <= b[2])

\* the spans of S in collection order
RECURSIVE OrderSpans(_)
OrderSpans(S) ==
    IF S = {} THEN <<>>
    ELSE LET first == CHOOSE a \in S : \A b \in S \ {a} :
                          a[1] < b[1] \/ (a[1] = b[1] /\ a[2] > b[2])
         IN  <<first>> \o OrderSpans(S \ {first})

\* an optional field: undefined, or a value
Undefined == <<>>
Some(v) == <<v>>

\* the symbol the collector found for the i-th node
SymbolNameOf(i) == IF i % 3 = 1 THEN "f" ELSE IF i % 3 = 2 THEN "g" ELSE "h"
SymbolTypeOf(i) == IF i % 2 = 1 THEN "class" ELSE "function"

\* the names, outermost first, of the nodes among the first j that enclose
\* the i-th span
RECURSIVE EnclosingNames(_, _, _)
EnclosingNames(ordered, i, j) ==
    IF j = 0 THEN <<>>
    ELSE EnclosingNames(ordered, i, j - 1)
         \o (IF j < i /\ ordered[j][1] <= ordered[i][1] /\ ordered[i][2] <= ordered[j][2]
             THEN <<SymbolNameOf(j)>> ELSE <<>>)

\* the entry the collector pushes for the i-th span: the node with its
\* symbolName, symbolType and parentLineage (undefined when empty)
SymbolNode(text, ordered, i) ==
    [startPosition |-> NodeAt(text, ordered[i][1], ordered[i][2]).startPosition,
     endPosition   |-> NodeAt(text, ordered[i][1], ordered[i][2]).endPosition,
     text          |-> Slice(text, ordered[i][1], ordered[i][2]),
     symbolName    |-> Some(SymbolNameOf(i)),
     symbolType    |-> Some(SymbolTypeOf(i)),
     parentLineage |-> IF Len(EnclosingNames(ordered, i, i - 1)) > 0
                       THEN Some(EnclosingNames(ordered, i, i - 1))
                       ELSE Undefined]

NodeLists(text) ==
    {[i \in 1..Cardinality(S) |-> SymbolNode(text, OrderSpans(S), i)] :
        S \in {T \in SUBSET NodeSpans(text) :
                 /\ Cardinality(T) <= MaxNodes
                 /\ \A a \in T : \A b \in T : SpansLaminar(a, b)}}

(***************************************************************************)
(* The chunk assembler and the cursor compositor (chunk-file.ts).  A chunk *)
(* is a record [content, startLine, endLine, tokenCount, chunkType,        *)
(* symbolName, symbolType, parentLineage], the last four being the fields  *)
(* of its metadata.                                                        *)
(***************************************************************************)
\* the symbol fields the metadata of a node's chunks is given
SymbolOf(node) ==
    [symbolName |-> node.symbolName, symbolType |-> node.symbolType,
     parentLineage |-> node.parentLineage]

\* the metadata of a gap's chunks names no symbol
NoSymbol ==
    [symbolName |-> Undefined, symbolType |-> Undefined, parentLineage |-> Undefined]

MkChunk(content, startLine, endLine, tokenCount, chunkType, symbol) ==
    [content |-> content, startLine |-> startLine, endLine |-> endLine,
     tokenCount |-> tokenCount, chunkType |-> chunkType,
     symbolName |-> symbol.symbolName, symbolType |-> symbol.symbolType,
     parentLineage |-> symbol.parentLineage]

\* a slip of SplitChunks: the chunks of a split unit lose the symbol
SplitChunksWithoutSymbol(splits, symbol) ==
    [i \in 1..Len(splits) |->
        MkChunk(splits[i].content, splits[i].startLine, splits[i].endLine,
                splits[i].tokenCount, "split", NoSymbol)]

\* the chunks made of the splits splitCode returned
SplitChunks(splits, symbol) ==
    [i \in 1..Len(splits) |->
        MkChunk(splits[i].content, splits[i].startLine, splits[i].endLine,
                splits[i].tokenCount, "split", symbol)]

\* an encoder whose encode call throws; chunkFile meets it when the encoder
\* fails while the file is being processed
BrokenEncoder == "broken"

\* Tokenizer.countTokens throws for this text: the text is not blank, so
\* encode is called, and encode throws
EncodeThrows(tk, text) == tk = BrokenEncoder /\ ~IsBlank(text)

CountFailure == Thrown("TokenProcessingError", <<"Failed to count tokens">>)

\* the outcome of a splitCode call as the assembler passes it on: the error
\* propagates, the splits become chunks
ChunksOfSplits(r, symbol) ==
    IF r.kind = "error" THEN r ELSE Returned(SplitChunks(r.value, symbol))

\* processASTNodeContent: the chunks of one node, or the error splitCode threw
processASTNodeContent(node, maxTokens, tk) ==
    LET nodeStartLine == node.startPosition.row + 1
        nodeEndLine == node.endPosition.row + 1
        tokenCount == countTokens(tk, node.text)
    IN  IF EncodeThrows(tk, node.text) THEN CountFailure
        ELSE IF tokenCount <= maxTokens
        THEN Returned(<<MkChunk(node.text, nodeStartLine, nodeEndLine, tokenCount,
                                "ast_node", SymbolOf(node))>>)
        ELSE ChunksOfSplits(splitCode(node.text, nodeStartLine, maxTokens, tk),
                            SymbolOf(node))

\* a slip of processGapContent: a gap over the budget yields no chunk
processGapContentDroppingLargeGap(gapContent, startLine, endLine, maxTokens, tk) ==
    LET tokenCount == countTokens(tk, gapContent)
    IN  IF EncodeThrows(tk, gapContent) THEN CountFailure
        ELSE IF tokenCount <= maxTokens
        THEN Returned(<<MkChunk(gapContent, startLine, endLine, tokenCount, "gap",
                                NoSymbol)>>)
        ELSE Returned(<<>>)

\* processGapContent: the chunks of one gap, or the error splitCode threw
processGapContent(gapContent, startLine, endLine, maxTokens, tk) ==
    LET tokenCount == countTokens(tk, gapContent)
    IN  IF EncodeThrows(tk, gapContent) THEN CountFailure
        ELSE IF tokenCount <= maxTokens
        THEN Returned(<<MkChunk(gapContent, startLine, endLine, tokenCount, "gap",
                                NoSymbol)>>)
        ELSE ChunksOfSplits(splitCode(gapContent, startLine, maxTokens, tk), NoSymbol)

\* [...].sort by (startPosition.row, startPosition.column); the sort is stable
NodeBefore(a, b) ==
    \/ a.startPosition.row < b.startPosition.row
    \/ /\ a.startPosition.row = b.startPosition.row
       /\ a.startPosition.column <= b.startPosition.column

RECURSIVE SortNodes(_)
SortNodes(nodes) ==
    IF Len(nodes) <= 1 THEN nodes
    ELSE LET init == SortNodes(SubSeq(nodes, 1, Len(nodes) - 1))
             x == nodes[Len(nodes)]
             k == Cardinality({i \in 1..Len(init) : NodeBefore(init[i], x)})
         IN  SubSeq(init, 1, k) \o <<x>> \o SubSeq(init, k + 1, Len(init))

\* chunks.sort((a, b) => a.startLine - b.startLine); the sort is stable
RECURSIVE SortChunks(_)
SortChunks(chunks) ==
    IF Len(chunks) <= 1 THEN chunks
    ELSE LET init == SortChunks(SubSeq(chunks, 1, Len(chunks) - 1))
             x == chunks[Len(chunks)]
             k == Cardinality({i \in 1..Len(init) : init[i].startLine <= x.startLine})
         IN  SubSeq(init, 1, k) \o <<x>> \o SubSeq(init, k + 1, Len(init))

MkUnit(unitKind, startLine, endLine) ==
    [unitKind |-> unitKind, startLine |-> startLine, endLine |-> endLine]

\* a unit together with the chunks pushed for it
UnitWithChunks(unit, chunks) ==
    [unitKind |-> unit.unitKind, startLine |-> unit.startLine,
     endLine |-> unit.endLine, chunks |-> chunks]

\* a slip of CursorAfter: one line too far
CursorAfterSkippingLine(nodeEndLine) == nodeEndLine + 2

\* the cursor after a node has been processed
CursorAfter(nodeEndLine) == nodeEndLine + 1

\* the loop state after one unit has been processed with outcome r: its
\* chunks are pushed, or the error r leaves the loop
UnitTaken(st, unit, r, cursor) ==
    IF r.kind = "error"
    THEN [st EXCEPT !.units = Append(@, UnitWithChunks(unit, <<>>)), !.thrown = r]
    ELSE [st EXCEPT !.units = Append(@, UnitWithChunks(unit, r.value)),
                    !.chunks = @ \o r.value, !.cursor = cursor]

\* the gap step of the compositor: the loop state after the lines from the
\* cursor up to gapEndLine have been looked at
GapStep(st, sourceLines, gapEndLine, maxTokens, tk) ==
    LET gapContent == StrJoin(SubSeq(sourceLines, st.cursor, gapEndLine), NL)
    IN  IF IsBlank(gapContent) THEN st
        ELSE UnitTaken(st, MkUnit("gap", st.cursor, gapEndLine),
                       processGapContent(gapContent, st.cursor, gapEndLine, maxTokens, tk),
                       st.cursor)

\* the node step of the compositor: the loop state after the node has been
\* processed, afterGap being the state the gap before it left
NodeStep(afterGap, node, maxTokens, tk) ==
    IF afterGap.thrown.kind = "error" THEN afterGap
    ELSE UnitTaken(afterGap,
                   MkUnit("node", node.startPosition.row + 1, node.endPosition.row + 1),
                   processASTNodeContent(node, maxTokens, tk),
                   CursorAfter(node.endPosition.row + 1))

\* the node loop of processFileWithCursor from node i on
RECURSIVE CursorLoop(_, _, _, _, _, _)
CursorLoop(sourceLines, sortedNodes, i, maxTokens, tk, st) ==
    IF st.thrown.kind = "error" THEN st
    ELSE IF i > Len(sortedNodes)
    THEN IF st.cursor <= Len(sourceLines)
         THEN GapStep(st, sourceLines, Len(sourceLines), maxTokens, tk)
         ELSE st
    ELSE LET node == sortedNodes[i]
             nodeStartLine == node.startPosition.row + 1
         IN  CursorLoop(sourceLines, sortedNodes, i + 1, maxTokens, tk,
                        NodeStep(IF st.cursor < nodeStartLine
                                 THEN GapStep(st, sourceLines, nodeStartLine - 1,
                                              maxTokens, tk)
                                 ELSE st,
                                 node, maxTokens, tk))

\* a slip of CursorOutcome: the final sort is done by the first run of the
\* process only, later runs hand the chunks back in the order they were pushed
CursorOutcomeSortedOnFirstRunOnly(st) ==
    [units  |-> st.units,
     result |-> IF st.thrown.kind = "error" THEN st.thrown
                ELSE IF cfResult = NoCall THEN Returned(SortChunks(st.chunks))
                ELSE Returned(st.chunks)]

\* what processFileWithCursor hands back once the loop has ended in state st:
\* the chunks sorted by start line, unless an error left the loop
CursorOutcome(st) ==
    [units  |-> st.units,
     result |-> IF st.thrown.kind = "error" THEN st.thrown
                ELSE Returned(SortChunks(st.chunks))]

\* processFileWithCursor: [units, result], the units walked and the sorted
\* chunks returned (or the error thrown)
processFileWithCursor(fileContent, astNodes, maxTokens, tk) ==
    CursorOutcome(CursorLoop(StrSplit(fileContent, NL), SortNodes(astNodes), 1,
                             maxTokens, tk,
                             [cursor |-> 1, chunks |-> <<>>, units |-> <<>>,
                              thrown |-> NoCall]))

(***************************************************************************)
(* chunkFile.  What the file system, the parser and the encoder do for the *)
(* file is the environment env of the call:                                *)
(*   supported    the extension has an entry in LANG_CONFIG;               *)
(*   readOk       fs.readFileSync returns the content;                     *)
(*   parseOk      parser.parse returns a tree;                             *)
(*   tokenizerOk  createTokenizer returns a tokenizer;                     *)
(*   encodeOk     the encoder's encode call returns.                       *)
(* The outcome is [events, units, result]: the processing steps performed, *)
(* in order, the units composed and the value returned or error thrown.    *)
(***************************************************************************)
Envs ==
    {[supported |-> FALSE, readOk |-> TRUE,  parseOk |-> TRUE,  tokenizerOk |-> TRUE,
      encodeOk |-> TRUE],
     [supported |-> TRUE,  readOk |-> FALSE, parseOk |-> TRUE,  tokenizerOk |-> TRUE,
      encodeOk |-> TRUE],
     [supported |-> TRUE,  readOk |-> TRUE,  parseOk |-> FALSE, tokenizerOk |-> TRUE,
      encodeOk |-> TRUE],
     [supported |-> TRUE,  readOk |-> TRUE,  parseOk |-> TRUE,  tokenizerOk |-> FALSE,
      encodeOk |-> TRUE],
     [supported |-> TRUE,  readOk |-> TRUE,  parseOk |-> TRUE,  tokenizerOk |-> TRUE,
      encodeOk |-> FALSE],
     [supported |-> TRUE,  readOk |-> TRUE,  parseOk |-> TRUE,  tokenizerOk |-> TRUE,
      encodeOk |-> TRUE]}

\* the outer catch of chunkFile: what it throws for the error caught
Rethrown(error) ==
    IF error.type \in {"FileSystemError", "ParsingError"}
    THEN error
    ELSE Thrown("ParsingError", <<"Unexpected error processing">> \o error.message)

\* a slip of Composed: the tokenizer is released on the success path only
ComposedLeakingOnError(p) ==
    [events |-> <<"readFile", "parse", "createTokenizer", "collectNodes",
                  "processFileWithCursor">>
                \o (IF p.result.kind = "error" THEN <<>> ELSE <<"dispose">>),
     units  |-> p.units,
     result |-> IF p.result.kind = "error" THEN Rethrown(p.result) ELSE p.result]

\* the inner try of chunkFile around the outcome p of processFileWithCursor:
\* the tokenizer is disposed of, the chunks are returned or the error goes
\* through the outer catch
Composed(p) ==
    [events |-> <<"readFile", "parse", "createTokenizer", "collectNodes",
                  "processFileWithCursor", "dispose">>,
     units  |-> p.units,
     result |-> IF p.result.kind = "error" THEN Rethrown(p.result) ELSE p.result]

chunkFile(env, fileContent, astNodes, maxTokens, tk) ==
    IF ~env.supported
    THEN [events |-> <<>>, units |-> <<>>, result |-> Returned(<<>>)]
    ELSE IF ~env.readOk
    THEN [events |-> <<"readFile">>, units |-> <<>>,
          result |-> Rethrown(Thrown("FileSystemError", <<"Failed to read file">>))]
    ELSE IF ~env.parseOk
    THEN [events |-> <<"readFile", "parse">>, units |-> <<>>,
          result |-> Rethrown(Thrown("ParsingError", <<"Failed to parse">>))]
    ELSE IF ~env.tokenizerOk
    THEN [events |-> <<"readFile", "parse", "createTokenizer">>, units |-> <<>>,
          result |-> Rethrown(Thrown("TokenProcessingError",
                                     <<"Failed to initialize tokenizer">>))]
    ELSE Composed(processFileWithCursor(fileContent, astNodes, maxTokens,
                                        IF env.encodeOk THEN tk ELSE BrokenEncoder))

(***************************************************************************)
(* extractGaps (chunk-file.ts): the gaps between the nodes, computed        *)
(* without the compositor.  A gap is a record [content, startLine,         *)
(* endLine].                                                               *)
(***************************************************************************)
\* a slip of GapBetween: a whitespace-only gap is kept
GapBetweenKeepingBlank(sourceLines, gapStartLine, gapEndLine) ==
    <<[content |-> StrJoin(SubSeq(sourceLines, gapStartLine, gapEndLine), NL),
       startLine |-> gapStartLine, endLine |-> gapEndLine]>>

\* the gap of the lines gapStartLine..gapEndLine, unless it trims to nothing
GapBetween(sourceLines, gapStartLine, gapEndLine) ==
    LET gapContent == StrJoin(SubSeq(sourceLines, gapStartLine, gapEndLine), NL)
    IN  IF IsBlank(gapContent) THEN <<>>
        ELSE <<[content |-> gapContent, startLine |-> gapStartLine,
                endLine |-> gapEndLine]>>

\* the node loop of extractGaps from node i on
RECURSIVE GapsLoop(_, _, _, _, _)
GapsLoop(sourceLines, nodes, i, currentLine, gaps) ==
    IF i > Len(nodes) THEN gaps
    ELSE LET nodeStartLine == nodes[i].startPosition.row + 1
         IN  GapsLoop(sourceLines, nodes, i + 1, nodes[i].endPosition.row + 2,
                      gaps \o (IF currentLine < nodeStartLine
                               THEN GapBetween(sourceLines, currentLine, nodeStartLine - 1)
                               ELSE <<>>))

extractGaps(nodes, sourceCode) ==
    LET sourceLines == StrSplit(sourceCode, NL)
    IN  IF Len(nodes) = 0
        THEN IF ~IsBlank(sourceCode)
             THEN <<[content |-> sourceCode, startLine |-> 1,
                     endLine |-> Len(sourceLines)]>>
             ELSE <<>>
        ELSE GapsLoop(sourceLines, nodes, 1, 1, <<>>)
             \o (IF nodes[Len(nodes)].endPosition.row + 1 < Len(sourceLines)
                 THEN GapBetween(sourceLines, nodes[Len(nodes)].endPosition.row + 2,
                                 Len(sourceLines))
                 ELSE <<>>)

(***************************************************************************)
(* The batch orchestrator (batch-processor.ts).  A discovered file is      *)
(* known by its index in the scanned list.  What chunkFile does for a file *)
(* is its outcome: [kind |-> "ok", n] (n chunks returned) or               *)
(* [kind |-> "error", type, message] (the error thrown; the message is its *)
(* lower-cased words).  chunkFile is synchronous and                       *)
(* processFileWithErrorHandling awaits nothing, so the promise it returns  *)
(* is settled when the for loop receives it.                               *)
(***************************************************************************)
ChunkCounts == {0, 1, 2}

FileOutcomes ==
    {[kind |-> "ok", n |-> n, type |-> "none", message |-> <<>>] : n \in ChunkCounts}
    \cup
    {[kind |-> "error", n |-> 0, type |-> "FileSystemError",
      message |-> <<"failed", "to", "read", "file", "enoent">>],
     [kind |-> "error", n |-> 0, type |-> "ParsingError",
      message |-> <<"failed", "to", "parse">>],
     [kind |-> "error", n |-> 0, type |-> "ParsingError",
      message |-> <<"failed", "to", "parse", "file">>]}

FileLists == UNION {[1..k -> FileOutcomes] : k \in 0..MaxFiles}

\* message.includes(word)
Includes(message, word) == \E i \in 1..Len(message) : message[i] = word

\* determineErrorType
determineErrorType(error) ==
    IF Includes(error.message, "enoent") \/ Includes(error.message, "eacces")
       \/ Includes(error.message, "file")
    THEN "file_system"
    ELSE IF Includes(error.message, "parse") \/ Includes(error.message, "syntax")
    THEN "parsing"
    ELSE IF Includes(error.message, "token") \/ Includes(error.message, "tiktoken")
    THEN "token_processing"
    ELSE IF Includes(error.message, "chroma") \/ Includes(error.message, "database")
            \/ Includes(error.message, "embedding")
    THEN "database"
    ELSE "parsing"

NoError == [type |-> "none", filePath |-> 0, message |-> <<>>, recoverable |-> TRUE]

\* the chunks chunkFile returns for file filePath when it returns n of them
FileChunks(filePath, n) == [k \in 1..n |-> [filePath |-> filePath, startLine |-> k]]

\* processFileWithErrorHandling: the settled promise it returns
processFileWithErrorHandling(filePath, outcome, continueOnErr) ==
    IF outcome.kind = "ok"
    THEN [state |-> "fulfilled",
          value |-> [filePath |-> filePath, chunks |-> FileChunks(filePath, outcome.n),
                     error |-> NoError]]
    ELSE IF ~continueOnErr
    THEN [state |-> "rejected",
          value |-> [filePath |-> filePath, chunks |-> <<>>,
                     error |-> [type |-> outcome.type, filePath |-> filePath,
                                message |-> outcome.message, recoverable |-> FALSE]]]
    ELSE [state |-> "fulfilled",
          value |-> [filePath |-> filePath, chunks |-> <<>>,
                     error |-> [type |-> determineErrorType(outcome), filePath |-> filePath,
                                message |-> outcome.message, recoverable |-> TRUE]]]

\* Promise.race(promises) over settled promises: the reactions run in the
\* order of the array, so the first promise decides
PromiseRace(promises) == promises[1]

\* inProgress.findIndex(p => p === Promise.resolve(completed)), 0 for -1:
\* Promise.resolve of a result object is a new promise, identical to none
\* of the promises held
FindCompletedIndex(promises, completed) == 0

\* the inProgress array after the splice guarded by index > -1
RemoveCompleted(promises, completed) ==
    LET index == FindCompletedIndex(promises, completed)
    IN  IF index > 0
        THEN SubSeq(promises, 1, index - 1) \o SubSeq(promises, index + 1, Len(promises))
        ELSE promises

\* the values of the promises, in order
PromiseValues(promises) == [i \in 1..Len(promises) |-> promises[i].value]

\* the aggregation loop of batchProcessFiles over the results
RECURSIVE Aggregate(_, _, _)
Aggregate(rs, i, acc) ==
    IF i > Len(rs) THEN acc
    ELSE Aggregate(rs, i + 1,
            IF rs[i].error.type # "none"
            THEN [acc EXCEPT !.errors = Append(@, rs[i].error)]
            ELSE [acc EXCEPT !.filesProcessed = @ + 1,
                             !.allChunks = @ \o rs[i].chunks])

BatchResultOf(rs) ==
    LET acc == Aggregate(rs, 1, [errors |-> <<>>, filesProcessed |-> 0, allChunks |-> <<>>])
    IN  [stats  |-> [filesProcessed |-> acc.filesProcessed,
                     chunksCreated  |-> Len(acc.allChunks),
                     errors         |-> acc.errors],
         chunks |-> acc.allChunks]

(***************************************************************************)
(* The node collectors (chunk-file.ts).  A syntax tree is a record         *)
(* [n, parent, type, pos]: its nodes are 1..n, node 1 is the root,         *)
(* parent[i] < i is the parent of node i (0 for the root), the children of *)
(* a node are in the order of their numbers, type[i] is node.type and      *)
(* pos[i] is node.startPosition.  The text of a node is known by the       *)
(* node's number, so a symbol name is the number of the naming child and 0 *)
(* stands for undefined.  A collected entry is a record                    *)
(* [id, type, startPosition, symbolName, parentLineage]; id is the tree    *)
(* node it was made from, an absent parentLineage is the empty sequence.   *)
(* SyntaxNode is an interface: the collectors take the positions the nodes *)
(* report as they are, so any position is tried for any node.              *)
(***************************************************************************)
NodeTypes ==
    {"class_declaration", "namespace_declaration", "function_declaration",
     "identifier", "type_identifier"}

Positions ==
    {[row |-> 0, column |-> 0], [row |-> 0, column |-> 1], [row |-> 1, column |-> 0]}

\* the parent maps of the trees of n nodes
ParentMaps(n) ==
    {f \in [1..n -> 0..(n - 1)] : \A i \in 1..n : f[i] < i /\ (i > 1 => f[i] >= 1)}

WantedSets ==
    {{"function_declaration"},
     {"class_declaration", "function_declaration"},
     {"class_declaration", "namespace_declaration", "function_declaration"}}

\* a slip of children: only the first child is visited
firstChildOnly(tree, node) ==
    LET first == {j \in 1..tree.n : tree.parent[j] = node /\ \A k \in 1..(j - 1) : tree.parent[k] # node}
    IN  IF first = {} THEN <<>> ELSE <<CHOOSE j \in first : TRUE>>

\* node.children, in order
children(tree, node) ==
    LET IsChild(j) == tree.parent[j] = node
    IN  SelectSeq([j \in 1..tree.n |-> j], IsChild)

\* node.children.find(child => child.type === childType)?.text
FindChildText(tree, node, childType) ==
    LET kids == children(tree, node)
        hits == {k \in 1..Len(kids) : tree.type[kids[k]] = childType}
    IN  IF hits = {} THEN 0
        ELSE kids[CHOOSE k \in hits : \A h \in hits : k <= h]

\* extractSymbolName, for the node types of the model
extractSymbolName(tree, node) ==
    CASE tree.type[node] = "function_declaration" -> FindChildText(tree, node, "identifier")
      [] tree.type[node] = "class_declaration" -> FindChildText(tree, node, "type_identifier")
      [] OTHER -> 0

\* isContainerNode
isContainerNode(nodeType) ==
    nodeType \in {"class_declaration", "interface_declaration", "namespace_declaration",
                  "module_declaration", "enum_declaration"}

\* a slip of SortCollected: the entries stay in the order of the walk
KeptInWalkOrder(treeNodes) == treeNodes

\* treeNodes.sort by (startPosition.row, startPosition.column)
SortCollected(treeNodes) == SortNodes(treeNodes)

\* collectTreeNodes, and its loop over the children from the k-th on
RECURSIVE collectTreeNodes(_, _, _)
RECURSIVE CollectFromChildren(_, _, _, _)
collectTreeNodes(tree, node, wantedNodes) ==
    SortCollected(
        (IF tree.type[node] \in wantedNodes
         THEN <<[id |-> node, type |-> tree.type[node], startPosition |-> tree.pos[node]]>>
         ELSE <<>>)
        \o CollectFromChildren(tree, children(tree, node), 1, wantedNodes))

CollectFromChildren(tree, kids, k, wantedNodes) ==
    IF k > Len(kids) THEN <<>>
    ELSE collectTreeNodes(tree, kids[k], wantedNodes)
         \o CollectFromChildren(tree, kids, k + 1, wantedNodes)

\* the lineage handed to the children of node
NewParentLineage(tree, node, parentLineage) ==
    IF extractSymbolName(tree, node) # 0 /\ isContainerNode(tree.type[node])
    THEN Append(parentLineage, extractSymbolName(tree, node))
    ELSE parentLineage

\* collectTreeNodesWithSymbols, and its loop over the children from the k-th on
RECURSIVE collectTreeNodesWithSymbols(_, _, _, _)
RECURSIVE CollectFromChildrenWithSymbols(_, _, _, _, _)
collectTreeNodesWithSymbols(tree, node, wantedNodes, parentLineage) ==
    SortCollected(
        (IF tree.type[node] \in wantedNodes
         THEN <<[id |-> node, type |-> tree.type[node], startPosition |-> tree.pos[node],
                 symbolName |-> extractSymbolName(tree, node),
                 parentLineage |-> parentLineage]>>
         ELSE <<>>)
        \o CollectFromChildrenWithSymbols(tree, children(tree, node), 1, wantedNodes,
                                          NewParentLineage(tree, node, parentLineage)))

CollectFromChildrenWithSymbols(tree, kids, k, wantedNodes, parentLineage) ==
    IF k > Len(kids) THEN <<>>
    ELSE collectTreeNodesWithSymbols(tree, kids[k], wantedNodes, parentLineage)
         \o CollectFromChildrenWithSymbols(tree, kids, k + 1, wantedNodes, parentLineage)

(***************************************************************************)
(* The values the variables of a machine hold while another machine runs.  *)
(***************************************************************************)
SplitIdle ==
    /\ optSourceCode = <<>>
    /\ optStartLine = 1
    /\ splitResult = NoCall
    /\ charSplit = NoCall

ChunkIdle ==
    /\ inFileContent = <<>>
    /\ inAstNodes = <<>>
    /\ inEnv = [supported |-> TRUE, readOk |-> TRUE, parseOk |-> TRUE, tokenizerOk |-> TRUE,
                encodeOk |-> TRUE]
    /\ cfUnits = <<>>
    /\ cfEvents = <<>>
    /\ cfResult = NoCall
    /\ cfResultAgain = NoCall
    /\ gapsResult = NoCall

BatchIdle ==
    /\ fileOutcome = <<>>
    /\ concurrency = 1
    /\ continueOnError = TRUE
    /\ bpc = "idle"
    /\ nextFile = 1
    /\ inProgress = <<>>
    /\ results = <<>>
    /\ bEvents = <<>>
    /\ batchResult = NoCall

CollectIdle ==
    /\ inTree = [n |-> 0, parent |-> <<>>, type |-> <<>>, pos |-> <<>>]
    /\ inWantedNodes = {}
    /\ collected = NoCall
    /\ collectedWithSymbols = NoCall

Budgets == (0 - 1)..MaxBudget

(***************************************************************************)
(* The splitter called on its own: any text, first line number, budget     *)
(* and encoder.                                                            *)
(***************************************************************************)
InitSplit ==
    /\ optMaxTokens \in Budgets
    /\ optTokenizer \in Tokenizers
    /\ optSourceCode \in Texts(MaxTextLen)
    /\ optStartLine \in 1..MaxStartLine
    /\ splitResult = NoCall
    /\ charSplit = NoCall
    /\ ChunkIdle
    /\ BatchIdle
    /\ CollectIdle

CallSplitCode ==
    /\ splitResult = NoCall
    /\ splitResult' = splitCode(optSourceCode, optStartLine, optMaxTokens, optTokenizer)
    /\ UNCHANGED <<optMaxTokens, optTokenizer, optSourceCode, optStartLine, charSplit,
                   chunkVars, batchVars, collectVars>>

\* findCharacterSplit called on the text with the budget and the tokenizer
CallFindCharacterSplit ==
    /\ charSplit = NoCall
    /\ charSplit' = Returned(findCharacterSplit(optSourceCode, optMaxTokens, optTokenizer))
    /\ UNCHANGED <<optMaxTokens, optTokenizer, optSourceCode, optStartLine, splitResult,
                   chunkVars, batchVars, collectVars>>

NextSplit == CallSplitCode \/ CallFindCharacterSplit

SpecSplit == InitSplit /\ [][NextSplit]_vars

(***************************************************************************)
(* chunkFile called on one file: any content, any collected nodes, any     *)
(* budget, encoder and environment.                                        *)
(***************************************************************************)
InitChunk ==
    /\ optMaxTokens \in 0..MaxBudget
    /\ optTokenizer \in Tokenizers
    /\ inFileContent \in Texts(MaxFileLen)
    /\ inAstNodes \in NodeLists(inFileContent)
    /\ inEnv \in Envs
    /\ cfUnits = <<>>
    /\ cfEvents = <<>>
    /\ cfResult = NoCall
    /\ cfResultAgain = NoCall
    /\ gapsResult = NoCall
    /\ SplitIdle
    /\ BatchIdle
    /\ CollectIdle

CallChunkFile ==
    /\ cfResult = NoCall
    /\ LET out == chunkFile(inEnv, inFileContent, inAstNodes, optMaxTokens, optTokenizer)
       IN  /\ cfResult' = out.result
           /\ cfUnits' = out.units
           /\ cfEvents' = out.events
    /\ UNCHANGED <<optMaxTokens, optTokenizer, inFileContent, inAstNodes, inEnv,
                   cfResultAgain, gapsResult, splitVars, batchVars, collectVars>>

\* chunkFile called a second time with the same options, the file, the
\* parser and the encoder being what they were for the first run
CallChunkFileAgain ==
    /\ cfResult # NoCall
    /\ cfResultAgain = NoCall
    /\ cfResultAgain' =
          chunkFile(inEnv, inFileContent, inAstNodes, optMaxTokens, optTokenizer).result
    /\ UNCHANGED <<optMaxTokens, optTokenizer, inFileContent, inAstNodes, inEnv,
                   cfUnits, cfEvents, cfResult, gapsResult,
                   splitVars, batchVars, collectVars>>

\* extractGaps called on the nodes and the content of the file
CallExtractGaps ==
    /\ gapsResult = NoCall
    /\ gapsResult' = Returned(extractGaps(inAstNodes, inFileContent))
    /\ UNCHANGED <<optMaxTokens, optTokenizer, inFileContent, inAstNodes, inEnv,
                   cfUnits, cfEvents, cfResult, cfResultAgain,
                   splitVars, batchVars, collectVars>>

NextChunk == CallChunkFile \/ CallChunkFileAgain \/ CallExtractGaps

SpecChunk == InitChunk /\ [][NextChunk]_vars

(***************************************************************************)
(* One call of batchProcessFiles: any scanned file list, concurrency and   *)
(* continueOnError.  The actions are the stretches of the call between its *)
(* awaits.                                                                 *)
(***************************************************************************)
InitBatch ==
    /\ optMaxTokens = 1
    /\ optTokenizer = "char"
    /\ fileOutcome \in FileLists
    /\ concurrency \in (0 - 1)..MaxConcurrency
    /\ continueOnError \in BOOLEAN
    /\ bpc = "start"
    /\ nextFile = 1
    /\ inProgress = <<>>
    /\ results = <<>>
    /\ bEvents = <<>>
    /\ batchResult = NoCall
    /\ SplitIdle
    /\ ChunkIdle
    /\ CollectIdle

BatchInputsUnchanged ==
    UNCHANGED <<optMaxTokens, optTokenizer, splitVars, chunkVars, collectVars,
                fileOutcome, concurrency, continueOnError>>

\* await scanRepository(scanOptions), and the early return for no files
BatchScan ==
    /\ bpc = "start"
    /\ bEvents' = Append(bEvents, [step |-> "scanRepository", file |-> 0])
    /\ \E scanOk \in BOOLEAN :
          IF ~scanOk
          THEN /\ batchResult' = Thrown("Error", <<"failed", "to", "scan", "repository">>)
               /\ bpc' = "done"
          ELSE IF Len(fileOutcome) = 0
          THEN /\ batchResult' = Returned(BatchResultOf(<<>>))
               /\ bpc' = "done"
          ELSE /\ batchResult' = batchResult
               /\ bpc' = "loop"
    /\ UNCHANGED <<nextFile, inProgress, results>>
    /\ BatchInputsUnchanged

\* the head of a loop iteration at the concurrency limit:
\* await Promise.race(inProgress).  Promise.race of an empty array never
\* settles, so with nothing in progress the await is never resumed
AwaitRace ==
    /\ bpc = "loop"
    /\ nextFile <= Len(fileOutcome)
    /\ Len(inProgress) >= concurrency
    /\ Len(inProgress) > 0
    /\ LET completed == PromiseRace(inProgress)
       IN  IF completed.state = "rejected"
           THEN /\ batchResult' = Thrown(completed.value.error.type,
                                         completed.value.error.message)
                /\ bpc' = "done"
                /\ UNCHANGED <<results, inProgress>>
           ELSE /\ results' = Append(results, completed.value)
                /\ inProgress' = RemoveCompleted(inProgress, completed.value)
                /\ bpc' = "start_file"
                /\ UNCHANGED batchResult
    /\ UNCHANGED <<nextFile, bEvents>>
    /\ BatchInputsUnchanged

\* the rest of a loop iteration: start processing the next file
StartFile ==
    /\ nextFile <= Len(fileOutcome)
    /\ \/ bpc = "start_file"
       \/ bpc = "loop" /\ Len(inProgress) < concurrency
    /\ inProgress' = Append(inProgress,
                            processFileWithErrorHandling(nextFile, fileOutcome[nextFile],
                                                         continueOnError))
    /\ bEvents' = Append(bEvents, [step |-> "chunkFile", file |-> nextFile])
    /\ nextFile' = nextFile + 1
    /\ bpc' = "loop"
    /\ UNCHANGED <<results, batchResult>>
    /\ BatchInputsUnchanged

\* after the loop: await Promise.all(inProgress), then the aggregation of
\* batchProcessFiles
AwaitAll ==
    /\ bpc = "loop"
    /\ nextFile > Len(fileOutcome)
    /\ IF \E i \in 1..Len(inProgress) : inProgress[i].state = "rejected"
       THEN LET first == CHOOSE i \in 1..Len(inProgress) :
                            /\ inProgress[i].state = "rejected"
                            /\ \A j \in 1..(i - 1) : inProgress[j].state # "rejected"
            IN  /\ batchResult' = Thrown(inProgress[first].value.error.type,
                                         inProgress[first].value.error.message)
                /\ UNCHANGED results
       ELSE /\ results' = results \o PromiseValues(inProgress)
            /\ batchResult' = Returned(BatchResultOf(results'))
    /\ bpc' = "done"
    /\ UNCHANGED <<nextFile, inProgress, bEvents>>
    /\ BatchInputsUnchanged

NextBatch == BatchScan \/ AwaitRace \/ StartFile \/ AwaitAll

SpecBatch == InitBatch /\ [][NextBatch]_vars

\* every await of the batch is on promises that settle (the file operations
\* finish), so a step that can be taken is eventually taken
SpecBatchFair == InitBatch /\ [][NextBatch]_vars /\ WF_vars(NextBatch)

(***************************************************************************)
(* The collectors called on the root of one tree: any tree, any of the     *)
(* sets of wanted node types.                                              *)
(***************************************************************************)
InitCollect ==
    /\ optMaxTokens = 1
    /\ optTokenizer = "char"
    /\ \E n \in 1..MaxTreeNodes :
          \E par \in ParentMaps(n) :
             \E ty \in [1..n -> NodeTypes] :
                \E po \in [1..n -> Positions] :
                   inTree = [n |-> n, parent |-> par, type |-> ty, pos |-> po]
    /\ inWantedNodes \in WantedSets
    /\ collected = NoCall
    /\ collectedWithSymbols = NoCall
    /\ SplitIdle
    /\ ChunkIdle
    /\ BatchIdle

CallCollectTreeNodes ==
    /\ collected = NoCall
    /\ collected' = Returned(collectTreeNodes(inTree, 1, inWantedNodes))
    /\ UNCHANGED <<optMaxTokens, optTokenizer, splitVars, chunkVars, batchVars,
                   inTree, inWantedNodes, collectedWithSymbols>>

CallCollectTreeNodesWithSymbols ==
    /\ collectedWithSymbols = NoCall
    /\ collectedWithSymbols' =
          Returned(collectTreeNodesWithSymbols(inTree, 1, inWantedNodes, <<>>))
    /\ UNCHANGED <<optMaxTokens, optTokenizer, splitVars, chunkVars, batchVars,
                   inTree, inWantedNodes, collected>>

NextCollect == CallCollectTreeNodes \/ CallCollectTreeNodesWithSymbols

SpecCollect == InitCollect /\ [][NextCollect]_vars

(***************************************************************************)
(* Properties.                                                             *)
(***************************************************************************)
\* chunkFile has returned chunks for a file it supports
ChunkFileReturned == cfResult.kind = "ok" /\ inEnv.supported

\* the environment in which reading, parsing and the encoder all succeed
EnvAllOk ==
    inEnv.supported /\ inEnv.readOk /\ inEnv.parseOk /\ inEnv.tokenizerOk /\ inEnv.encodeOk

FileLines == StrSplit(inFileContent, NL)

LineCovered(chunks, n) ==
    \E i \in 1..Len(chunks) : chunks[i].startLine <= n /\ n <= chunks[i].endLine

\* the splits splitCode returned
SplitsReturned == IF splitResult.kind = "ok" THEN splitResult.value ELSE <<>>

SourceLines == StrSplit(optSourceCode, NL)

\* the contents of the splits that lie on line n alone, in emitted order
RECURSIVE FragmentsOn(_, _)
FragmentsOn(splits, n) ==
    IF Len(splits) = 0 THEN <<>>
    ELSE (IF splits[1].startLine = n /\ splits[1].endLine = n
          THEN <<splits[1].content>> ELSE <<>>) \o FragmentsOn(Tail(splits), n)

Oversized(i) == countTokens(optTokenizer, SourceLines[i]) > optMaxTokens

\* C1: the line ranges of the units the cursor compositor emits (node units
\* and gap units) are pairwise non-overlapping, nested nodes and nodes that
\* share a line included.
C1_UnitsDoNotOverlap ==
    \A i \in 1..Len(cfUnits) : \A j \in 1..Len(cfUnits) :
        i < j => \/ cfUnits[i].endLine < cfUnits[j].startLine
                 \/ cfUnits[j].endLine < cfUnits[i].startLine

\* C2 as stated: every line number of the file lies inside the line range
\* of at least one chunk chunkFile returns.
C2_EveryLineCovered ==
    ChunkFileReturned =>
        \A n \in 1..Len(FileLines) : LineCovered(cfResult.value, n)

\* C2 as amended: every line of the file that holds a non-whitespace
\* character lies inside the line range of at least one chunk chunkFile
\* returns; whitespace-only lines may lie in none.
C2_EveryNonBlankLineCovered ==
    ChunkFileReturned =>
        \A n \in 1..Len(FileLines) :
            ~IsBlank(FileLines[n]) => LineCovered(cfResult.value, n)

\* chunkFile returned chunks for a file with a node and left a blank line
\* in no chunk
C2_Witness ==
    /\ ChunkFileReturned
    /\ Len(inAstNodes) > 0
    /\ Len(cfResult.value) > 0
    /\ \E n \in 1..Len(FileLines) :
          IsBlank(FileLines[n]) /\ ~LineCovered(cfResult.value, n)

\* C3: every split splitCode returns, a single-character fragment apart,
\* has content the tokenizer counts at no more than maxTokens tokens.
C3_ContentWithinBudget ==
    \A i \in 1..Len(SplitsReturned) :
        \/ Len(SplitsReturned[i].content) = 1
        \/ countTokens(optTokenizer, SplitsReturned[i].content) <= optMaxTokens

\* C4: the tokenCount stored in every split equals countTokens of its
\* content.
C4_StoredCountIsMeasuredCount ==
    \A i \in 1..Len(SplitsReturned) :
        SplitsReturned[i].tokenCount = countTokens(optTokenizer, SplitsReturned[i].content)

\* C5: for a line whose token count exceeds maxTokens (maxTokens >= 1), the
\* fragments emitted for it, concatenated in order, are the line.
C5_FragmentsRebuildLine ==
    (splitResult.kind = "ok" /\ optMaxTokens >= 1) =>
        \A i \in 1..Len(SourceLines) :
            Oversized(i) =>
                Concat(FragmentsOn(SplitsReturned, optStartLine + i - 1)) = SourceLines[i]

\* splitCode cut an oversized line into several fragments
C5_Witness ==
    /\ splitResult.kind = "ok"
    /\ optMaxTokens >= 1
    /\ \E i \in 1..Len(SourceLines) :
          /\ Oversized(i)
          /\ Len(FragmentsOn(SplitsReturned, optStartLine + i - 1)) >= 2

\* C6: no split splitCode returns has empty or whitespace-only content.
C6_NoWhitespaceOnlyContent ==
    \A i \in 1..Len(SplitsReturned) : ~IsBlank(SplitsReturned[i].content)

\* C7: chunkFile called with maxTokens <= 0 on a supported file that is read
\* and parsed fails with a TokenProcessing error, whatever the content.
C7_InvalidBudgetIsTokenProcessingError ==
    (cfResult.kind # "none" /\ EnvAllOk /\ optMaxTokens <= 0) =>
        /\ cfResult.kind = "error"
        /\ cfResult.type = "TokenProcessingError"

\* C8: when chunkFile raises an error for an invalid maxTokens, no
\* processing step (file read, parse, tokenizer creation) has preceded it.
C8_InvalidBudgetRaisedBeforeProcessing ==
    (cfResult.kind = "error" /\ EnvAllOk /\ optMaxTokens <= 0) => cfEvents = <<>>

\* C9: splitCode throws TokenProcessingError whenever maxTokens <= 0, for
\* every text, empty and whitespace-only text included.
C9_SplitCodeRejectsInvalidBudget ==
    (splitResult.kind # "none" /\ optMaxTokens <= 0) =>
        /\ splitResult.kind = "error"
        /\ splitResult.type = "TokenProcessingError"

\* C10: with continueOnError and concurrency >= 1, filesProcessed is the
\* number of files chunkFile succeeded on and the error list holds one
\* error per file chunkFile failed on.
C10_OneOutcomePerFile ==
    (batchResult.kind = "ok" /\ continueOnError /\ concurrency >= 1) =>
        /\ batchResult.value.stats.filesProcessed =
              Cardinality({f \in 1..Len(fileOutcome) : fileOutcome[f].kind = "ok"})
        /\ Len(batchResult.value.stats.errors) =
              Cardinality({f \in 1..Len(fileOutcome) : fileOutcome[f].kind = "error"})
        /\ \A f \in 1..Len(fileOutcome) :
              fileOutcome[f].kind = "error" =>
                  Cardinality({e \in 1..Len(batchResult.value.stats.errors) :
                                 batchResult.value.stats.errors[e].filePath = f}) = 1

\* the chunk chunkFile returned k-th for file f
ChunkOf(f, k) == [filePath |-> f, startLine |-> k]

\* the batch has returned a result in a run that continues on error
BatchReturnedContinuing ==
    batchResult.kind = "ok" /\ continueOnError /\ concurrency >= 1

\* the files started so far, in the order of their start
StartedFiles == [i \in 1..Len(bEvents) |-> bEvents[i].file]

\* C11: with continueOnError and concurrency >= 1, the aggregate chunk list
\* holds every chunk of every successful file exactly once and no chunk of a
\* failed file, and chunksCreated is the sum of the successful files' chunk
\* counts.
C11_ChunksOfEachFileOnce ==
    BatchReturnedContinuing =>
        /\ \A f \in 1..Len(fileOutcome) : \A k \in 1..2 :
              Cardinality({i \in 1..Len(batchResult.value.chunks) :
                             batchResult.value.chunks[i] = ChunkOf(f, k)})
                 = IF fileOutcome[f].kind = "ok" /\ k <= fileOutcome[f].n THEN 1 ELSE 0
        /\ batchResult.value.stats.chunksCreated = Len(batchResult.value.chunks)

\* C12: at every moment of a batch run the in-progress set holds at most
\* `concurrency` per-file tasks.
C12_InFlightWithinConcurrency ==
    concurrency >= 1 => Len(inProgress) <= concurrency

\* C13: with continueOnError = false, once a started file has failed no
\* further file is started, and the batch call ends with an error, never a
\* result.
C13_FirstFailureAborts ==
    ~continueOnError =>
        /\ \A i \in 1..Len(StartedFiles) : \A j \in 1..Len(StartedFiles) :
              (i < j /\ StartedFiles[i] > 0 /\ StartedFiles[j] > 0)
                  => fileOutcome[StartedFiles[i]].kind # "error"
        /\ (bpc = "done" /\ \E i \in 1..Len(StartedFiles) :
                                StartedFiles[i] > 0
                                /\ fileOutcome[StartedFiles[i]].kind = "error")
              => batchResult.kind = "error"

\* C14: the aggregate chunk list a batch run returns is sorted ascending by
\* (filePath, startLine).
C14_AggregateSorted ==
    (batchResult.kind = "ok" /\ concurrency >= 1) =>
        \A i \in 1..(Len(batchResult.value.chunks) - 1) :
            \/ batchResult.value.chunks[i].filePath < batchResult.value.chunks[i + 1].filePath
            \/ /\ batchResult.value.chunks[i].filePath = batchResult.value.chunks[i + 1].filePath
               /\ batchResult.value.chunks[i].startLine <= batchResult.value.chunks[i + 1].startLine

\* C16: the ProcessingError recorded for a failed file has the kind of the
\* error chunkFile raised: 'parsing' for a ParsingError, 'file_system' for a
\* FileSystemError, whatever the words of the message.
C16_RecordedKindIsRaisedKind ==
    batchResult.kind = "ok" =>
        \A e \in 1..Len(batchResult.value.stats.errors) :
            LET err == batchResult.value.stats.errors[e]
            IN  err.type = IF fileOutcome[err.filePath].type = "ParsingError"
                           THEN "parsing" ELSE "file_system"

\* the file is supported, read and parsed, so chunkFile reaches createTokenizer
ReachesTokenizer == inEnv.supported /\ inEnv.readOk /\ inEnv.parseOk

\* the tokenizer fails during the call: it cannot be created, or its encoder
\* throws on the first text measured (a file that is not blank has one)
TokenizerFails ==
    ReachesTokenizer /\ (~inEnv.tokenizerOk \/ (~inEnv.encodeOk /\ ~IsBlank(inFileContent)))

\* the number of times step occurs among the steps chunkFile performed
EventCount(step) == Cardinality({i \in 1..Len(cfEvents) : cfEvents[i] = step})

\* C15: when the tokenizer fails during chunkFile (it cannot be created, or
\* countTokens throws), chunkFile throws an error of kind TokenProcessing and
\* returns no chunks.
C15_TokenizerFailureIsTokenProcessing ==
    (cfResult.kind # "none" /\ TokenizerFails) =>
        /\ cfResult.kind = "error"
        /\ cfResult.type = "TokenProcessingError"

\* C17: when chunkFile has returned or thrown, the tokenizer it created has
\* been disposed of exactly once, after the last processing step, and no
\* dispose happened (no tokenizer exists) when the call ended before a
\* tokenizer was created.
C17_TokenizerReleasedOnEveryPath ==
    cfResult.kind # "none" =>
        IF ReachesTokenizer /\ inEnv.tokenizerOk
        THEN /\ EventCount("dispose") = 1
             /\ cfEvents[Len(cfEvents)] = "dispose"
        ELSE EventCount("dispose") = 0

\* C17's case: chunkFile threw after it had created a tokenizer
C17_Witness ==
    /\ cfResult.kind = "error"
    /\ ReachesTokenizer /\ inEnv.tokenizerOk
    /\ EventCount("createTokenizer") = 1

\* the entries each collector returned
Collected == IF collected.kind = "ok" THEN collected.value ELSE <<>>
CollectedWithSymbols ==
    IF collectedWithSymbols.kind = "ok" THEN collectedWithSymbols.value ELSE <<>>

\* the tree nodes whose type is wanted
WantedTreeNodes == {i \in 1..inTree.n : inTree.type[i] \in inWantedNodes}

\* entries holds one entry for every wanted tree node and nothing else
OneEntryPerWantedNode(entries) ==
    /\ {entries[e].id : e \in 1..Len(entries)} = WantedTreeNodes
    /\ Len(entries) = Cardinality(WantedTreeNodes)

\* entries are in ascending order of (row, column)
SortedByPosition(entries) ==
    \A e \in 1..(Len(entries) - 1) :
        \/ entries[e].startPosition.row < entries[e + 1].startPosition.row
        \/ /\ entries[e].startPosition.row = entries[e + 1].startPosition.row
           /\ entries[e].startPosition.column <= entries[e + 1].startPosition.column

\* tree node a is a proper ancestor of tree node i
RECURSIVE IsAncestor(_, _)
IsAncestor(a, i) ==
    i > 1 /\ (inTree.parent[i] = a \/ IsAncestor(a, inTree.parent[i]))

\* the name a container node declares: the text of its name child
DeclaredName(a) ==
    CASE inTree.type[a] = "class_declaration" -> FindChildText(inTree, a, "type_identifier")
      [] inTree.type[a] = "namespace_declaration" -> FindChildText(inTree, a, "identifier")
      [] OTHER -> 0

\* the names of the named container ancestors of node i, outermost first
RECURSIVE LineageOf(_)
LineageOf(i) ==
    IF i <= 1 THEN <<>>
    ELSE LET a == inTree.parent[i]
         IN  LineageOf(a) \o (IF isContainerNode(inTree.type[a]) /\ DeclaredName(a) # 0
                              THEN <<DeclaredName(a)>> ELSE <<>>)

\* C18: each collector returns exactly one entry for every tree node whose
\* type is wanted, nested ones included, and no other entry.
C18_OneEntryPerWantedNode ==
    /\ collected.kind = "ok" => OneEntryPerWantedNode(Collected)
    /\ collectedWithSymbols.kind = "ok" => OneEntryPerWantedNode(CollectedWithSymbols)

\* C18's case: both collectors have returned a wanted node together with a
\* wanted node nested inside it
C18_Witness ==
    /\ collected.kind = "ok" /\ collectedWithSymbols.kind = "ok"
    /\ \E a \in WantedTreeNodes : \E i \in WantedTreeNodes : IsAncestor(a, i)

\* C19: the sequence each collector returns is sorted ascending by
\* (startRow, startColumn).
C19_CollectedSortedByPosition ==
    SortedByPosition(Collected) /\ SortedByPosition(CollectedWithSymbols)

\* C19's case: both collectors have returned entries of a tree whose walk
\* meets a later position before an earlier one
C19_Witness ==
    /\ collected.kind = "ok" /\ collectedWithSymbols.kind = "ok"
    /\ \E i \in WantedTreeNodes : \E j \in WantedTreeNodes :
          i < j /\ inTree.pos[i].row > inTree.pos[j].row

\* C20: the lineage of every entry collectTreeNodesWithSymbols returns is
\* the list, outermost first, of the names of all its proper ancestors of a
\* container kind, namespaces included.
C20_LineageNamesContainerAncestors ==
    \A e \in 1..Len(CollectedWithSymbols) :
        CollectedWithSymbols[e].parentLineage = LineageOf(CollectedWithSymbols[e].id)

\* the splits that touch line n, in emitted order
RECURSIVE SplitsTouching(_, _)
SplitsTouching(splits, n) ==
    IF Len(splits) = 0 THEN <<>>
    ELSE (IF splits[1].startLine <= n /\ n <= splits[1].endLine
          THEN <<splits[1]>> ELSE <<>>) \o SplitsTouching(Tail(splits), n)

NoOversizedLine == \A i \in 1..Len(SourceLines) : ~Oversized(i)

\* C22: for a line whose token count exceeds maxTokens (maxTokens >= 1),
\* every split that touches the line is a fragment with startLine = endLine =
\* the line's number, there is at least one, and its measured token count is
\* at most maxTokens unless its content is exactly one character.
C22_FragmentsOnOneLineWithinBudget ==
    (splitResult.kind = "ok" /\ optMaxTokens >= 1) =>
        \A i \in 1..Len(SourceLines) :
            Oversized(i) =>
                LET n == optStartLine + i - 1
                    touching == SplitsTouching(SplitsReturned, n)
                IN  /\ Len(touching) >= 1
                    /\ \A k \in 1..Len(touching) :
                          /\ touching[k].startLine = n
                          /\ touching[k].endLine = n
                          /\ \/ countTokens(optTokenizer, touching[k].content) <= optMaxTokens
                             \/ Len(touching[k].content) = 1

\* C22's case: an oversized line was cut into fragments, one of them longer
\* than one character and one of them a single character over the budget
C22_Witness ==
    /\ splitResult.kind = "ok"
    /\ optMaxTokens >= 1
    /\ \E i \in 1..Len(SourceLines) :
          /\ Oversized(i)
          /\ \E k \in 1..Len(SplitsReturned) :
                /\ SplitsReturned[k].startLine = optStartLine + i - 1
                /\ Len(SplitsReturned[k].content) >= 2
    /\ \E i \in 1..Len(SourceLines) :
          /\ Oversized(i)
          /\ \E k \in 1..Len(SplitsReturned) :
                /\ SplitsReturned[k].startLine = optStartLine + i - 1
                /\ Len(SplitsReturned[k].content) = 1
                /\ countTokens(optTokenizer, SplitsReturned[k].content) > optMaxTokens

\* C23: for a text with at least one non-blank line and no line over the
\* budget (maxTokens >= 1) the splits tile the line range: the first starts
\* at startLine, each next one starts on the line after the previous one
\* ends, and the last ends at startLine + number of lines - 1.
C23_SplitsTileLineRange ==
    (splitResult.kind = "ok" /\ optMaxTokens >= 1 /\ ~IsBlank(optSourceCode)
        /\ NoOversizedLine) =>
        /\ Len(SplitsReturned) >= 1
        /\ SplitsReturned[1].startLine = optStartLine
        /\ \A k \in 1..(Len(SplitsReturned) - 1) :
              SplitsReturned[k + 1].startLine = SplitsReturned[k].endLine + 1
        /\ SplitsReturned[Len(SplitsReturned)].endLine = optStartLine + Len(SourceLines) - 1

\* C23's case: a text without oversized lines, with a blank line between two
\* non-blank lines, was cut into two or more splits
C23_Witness ==
    /\ splitResult.kind = "ok"
    /\ optMaxTokens >= 1
    /\ NoOversizedLine
    /\ Len(SplitsReturned) >= 2
    /\ Len(SourceLines) >= 3
    /\ ~IsBlank(SourceLines[1])
    /\ IsBlank(SourceLines[2])

\* C24: every split splitCode returns (maxTokens >= 1, oversized and blank
\* lines included) has startLine <= endLine and a content of exactly
\* endLine - startLine + 1 newline-separated lines.
C24_LineCountMatchesRange ==
    (splitResult.kind = "ok" /\ optMaxTokens >= 1) =>
        \A k \in 1..Len(SplitsReturned) :
            /\ SplitsReturned[k].startLine <= SplitsReturned[k].endLine
            /\ Len(StrSplit(SplitsReturned[k].content, NL))
                  = SplitsReturned[k].endLine - SplitsReturned[k].startLine + 1

\* C24's case: the text starts with a blank line and one of the splits
\* returned spans several lines, the blank one included
C24_Witness ==
    /\ splitResult.kind = "ok"
    /\ optMaxTokens >= 1
    /\ Len(SourceLines) >= 2
    /\ IsBlank(SourceLines[1])
    /\ \E k \in 1..Len(SplitsReturned) :
          /\ SplitsReturned[k].startLine = optStartLine
          /\ SplitsReturned[k].endLine > SplitsReturned[k].startLine

\* C26: splitLongLine terminates: every fragment emitted for an oversized
\* line (maxTokens >= 1) is non-empty, so each iteration shortens the
\* remaining text, and there are at most as many fragments as the line has
\* characters.
C26_LongLineLoopTerminates ==
    (splitResult.kind = "ok" /\ optMaxTokens >= 1) =>
        \A i \in 1..Len(SourceLines) :
            Oversized(i) =>
                LET fragments == FragmentsOn(SplitsReturned, optStartLine + i - 1)
                IN  /\ \A k \in 1..Len(fragments) : Len(fragments[k]) >= 1
                    /\ Len(fragments) <= Len(SourceLines[i])

\* C26's case: an oversized line of three or more characters was emitted one
\* character per iteration
C26_Witness ==
    /\ splitResult.kind = "ok"
    /\ optMaxTokens >= 1
    /\ \E i \in 1..Len(SourceLines) :
          /\ Oversized(i)
          /\ Len(SourceLines[i]) >= 3
          /\ Len(FragmentsOn(SplitsReturned, optStartLine + i - 1)) = Len(SourceLines[i])

\* C27: findCharacterSplit returns the longest prefix of the text whose
\* token count is at most maxTokens (maxTokens >= 1), for every text and
\* every token-counting function.
C27_LongestPrefixWithinBudget ==
    (charSplit.kind = "ok" /\ optMaxTokens >= 1) =>
        /\ charSplit.value = Slice(optSourceCode, 0, Len(charSplit.value))
        /\ countTokens(optTokenizer, charSplit.value) <= optMaxTokens
        /\ \A k \in (Len(charSplit.value) + 1)..Len(optSourceCode) :
              countTokens(optTokenizer, Slice(optSourceCode, 0, k)) > optMaxTokens

\* the line numbers of the file that lie in no chunk chunkFile returned
UncoveredLines == {n \in 1..Len(FileLines) : ~LineCovered(cfResult.value, n)}

\* C28: when chunkFile returns, the only lines of the file that lie in no
\* chunk are whitespace-only lines; no content is silently lost.
C28_OnlyBlankLinesUncovered ==
    ChunkFileReturned => \A n \in UncoveredLines : IsBlank(FileLines[n])

\* C28's case: chunkFile split an over-budget gap or node into "split"
\* chunks and left a line of the same file outside every chunk
C28_Witness ==
    /\ ChunkFileReturned
    /\ UncoveredLines # {}
    /\ \E i \in 1..Len(cfResult.value) : cfResult.value[i].chunkType = "split"
    /\ \E n \in 1..Len(FileLines) : ~IsBlank(FileLines[n])

\* C29: batchProcessFiles eventually completes (resolves or rejects) for
\* every finite file list and every concurrency value, zero and negative
\* values included.
C29_BatchEventuallyCompletes == <>(bpc = "done")

\* with a concurrency of one or more the batch eventually completes
BatchCompletesWithPositiveConcurrency == (concurrency >= 1) => <>(bpc = "done")

\* the line ranges of a sequence of records with startLine and endLine
RangesOf(seq) == [i \in 1..Len(seq) |-> <<seq[i].startLine, seq[i].endLine>>]

\* the gap units among the units the compositor walked, in order
RECURSIVE GapUnits(_)
GapUnits(units) ==
    IF Len(units) = 0 THEN <<>>
    ELSE (IF units[1].unitKind = "gap" THEN <<units[1]>> ELSE <<>>) \o GapUnits(Tail(units))

\* C30: for a node list sorted by start position, the gaps extractGaps
\* returns have exactly the line ranges, in the same order, of the gaps
\* processFileWithCursor composes (whitespace-only gaps suppressed by both,
\* the file without nodes and the trailing gap included).
C30_ExtractGapsMatchesCompositor ==
    (ChunkFileReturned /\ gapsResult.kind = "ok" /\ SortNodes(inAstNodes) = inAstNodes) =>
        RangesOf(gapsResult.value) = RangesOf(GapUnits(cfUnits))

\* C30's case: both were run on a file with a node and a gap next to it
C30_Witness ==
    /\ ChunkFileReturned
    /\ gapsResult.kind = "ok"
    /\ Len(inAstNodes) >= 1
    /\ Len(gapsResult.value) >= 1
    /\ Len(GapUnits(cfUnits)) >= 1

\* both were run on a file with a node and a whitespace-only stretch of
\* lines outside it, which both suppress
C30_SuppressedGapReached ==
    /\ ChunkFileReturned
    /\ gapsResult.kind = "ok"
    /\ Len(inAstNodes) >= 1
    /\ Len(gapsResult.value) = 0
    /\ \E n \in 1..Len(FileLines) : ~LineCovered(cfUnits, n)

\* both were run on a file without nodes whose whole content is one gap
C30_ZeroNodeCaseReached ==
    /\ ChunkFileReturned
    /\ gapsResult.kind = "ok"
    /\ Len(inAstNodes) = 0
    /\ Len(gapsResult.value) = 1

\* the units of one kind among the units the compositor walked, in order
RECURSIVE UnitsOfKind(_, _)
UnitsOfKind(units, unitKind) ==
    IF Len(units) = 0 THEN <<>>
    ELSE (IF units[1].unitKind = unitKind THEN <<units[1]>> ELSE <<>>)
         \o UnitsOfKind(Tail(units), unitKind)

\* chunk c carries exactly the symbol fields of `symbol`
CarriesSymbol(c, symbol) ==
    /\ c.symbolName = symbol.symbolName
    /\ c.symbolType = symbol.symbolType
    /\ c.parentLineage = symbol.parentLineage

\* the chunks of a unit are one whole chunk of the kind `whole` if the
\* unit's content is within the budget, and chunks of kind "split" if not
OriginKindsRight(unit, content, whole) ==
    IF countTokens(optTokenizer, content) <= optMaxTokens
    THEN Len(unit.chunks) = 1 /\ unit.chunks[1].chunkType = whole
    ELSE \A i \in 1..Len(unit.chunks) : unit.chunks[i].chunkType = "split"

\* C21: when chunkFile returns, the chunks of every node unit carry exactly
\* the node's symbolName, symbolType and lineage and the chunks of every gap
\* unit carry none; a unit within the budget yields exactly one chunk, of
\* kind "ast_node" or "gap", and every chunk of a unit over the budget has
\* kind "split".
C21_ChunkMetadataFollowsUnit ==
    ChunkFileReturned =>
        /\ \A k \in 1..Len(UnitsOfKind(cfUnits, "node")) :
              LET unit == UnitsOfKind(cfUnits, "node")[k]
                  node == SortNodes(inAstNodes)[k]
              IN  /\ OriginKindsRight(unit, node.text, "ast_node")
                  /\ \A i \in 1..Len(unit.chunks) :
                        CarriesSymbol(unit.chunks[i], SymbolOf(node))
        /\ \A k \in 1..Len(UnitsOfKind(cfUnits, "gap")) :
              LET unit == UnitsOfKind(cfUnits, "gap")[k]
              IN  /\ OriginKindsRight(unit,
                                      StrJoin(SubSeq(FileLines, unit.startLine, unit.endLine),
                                              NL),
                                      "gap")
                  /\ \A i \in 1..Len(unit.chunks) : CarriesSymbol(unit.chunks[i], NoSymbol)

\* C21's case: chunkFile split a node over the budget into several chunks
\* that carry its symbol, and made chunks of a gap of the same file
C21_Witness ==
    /\ ChunkFileReturned
    /\ \E k \in 1..Len(cfUnits) :
          /\ cfUnits[k].unitKind = "node"
          /\ Len(cfUnits[k].chunks) >= 2
          /\ cfUnits[k].chunks[1].chunkType = "split"
          /\ cfUnits[k].chunks[1].symbolName # Undefined
    /\ \E k \in 1..Len(cfUnits) :
          /\ cfUnits[k].unitKind = "gap"
          /\ Len(cfUnits[k].chunks) >= 1

\* chunkFile returned split chunks of a node nested in another node
C21_NestedSplitReached ==
    /\ ChunkFileReturned
    /\ \E i \in 1..Len(cfResult.value) :
          /\ cfResult.value[i].chunkType = "split"
          /\ cfResult.value[i].parentLineage # Undefined

=============================================================================
